---------------------------- MODULE Spec2Model ----------------------------
(***************************************************************************)
(* A model of scripts/scrape_atp_tournaments.py: the fetcher with its      *)
(* bounded retry, the text normalisers and date-range parsers, the JSON    *)
(* and HTML extraction passes, the deduplicator and the orchestrator.      *)
(*                                                                         *)
(* Strings are TLA+ strings; a character is a string of length one.        *)
(* Regular expressions are sequences of quantified character classes and   *)
(* are matched greedily with backtracking, as Python's re module does.     *)
(***************************************************************************)
EXTENDS Integers, Sequences, FiniteSets, TLC

VARIABLES
    (* the pipeline: main, parse_calendar_json, parse_calendar_like *)
    pc,         \* where main is: "next" (about to start the next category, or
                \* to end), "json_loop", "html", "html_loop", "write", "raised"
    cat,        \* the source category being scraped: 1..3, 0 before the first
    rows,       \* the extractor's local list `rows`
    seen,       \* the extractor's local set `seen`
    files,      \* what write_csv has written, per category (Pending before)
    jsonRet,    \* this category: how parse_calendar_json ended, and what it returned
    htmlRet,    \* this category: how far parse_calendar_like got ("none" before)
    net,        \* this category: the GETs issued, by what was requested
    cands,      \* this pass: the items walked, in order, and what became of each
    walked,     \* the items walked in the whole run
    (* one call of fetch, step by step *)
    f,          \* the loop state of fetch
    fouts,      \* the outcomes the network gives to the attempts of this call
    (* dedupe_rows *)
    d_in, d_out,
    (* split_location_and_date *)
    s_in, s_out,
    (* parse_formatted_date_range / parse_date_range *)
    p_in, p_out, p_old

pipeVars  == <<pc, cat, rows, seen, files, jsonRet, htmlRet, net, cands, walked>>
fetchVars == <<f, fouts>>
dedupeVars == <<d_in, d_out>>
splitVars == <<s_in, s_out>>
dateVars  == <<p_in, p_out, p_old>>
vars == <<pipeVars, fetchVars, dedupeVars, splitVars, dateVars>>

----------------------------------------------------------------------------
(* Characters and strings *)

Upper == {"A","B","C","D","E","F","G","H","I","J","K","L","M",
          "N","O","P","Q","R","S","T","U","V","W","X","Y","Z"}
Lower == {"a","b","c","d","e","f","g","h","i","j","k","l","m",
          "n","o","p","q","r","s","t","u","v","w","x","y","z"}
\* [A-Za-z]
Alpha == Upper \cup Lower
\* \d
Digit == {"0","1","2","3","4","5","6","7","8","9"}
\* \s
WS == {" ", "\t", "\n"}

Ch(s, i) == SubSeq(s, i, i)

Contains(s, c) == \E i \in 1..Len(s) : Ch(s, i) = c

\* the index of the first c in s, 0 when there is none (str.find + 1)
IndexOf(s, c) ==
    IF Contains(s, c)
    THEN CHOOSE i \in 1..Len(s) : Ch(s, i) = c /\ \A j \in 1..(i-1) : Ch(s, j) # c
    ELSE 0

\* s.split(c, 1) for an s that contains c
SplitFirst(s, c) ==
    LET i == IndexOf(s, c) IN <<SubSeq(s, 1, i-1), SubSeq(s, i+1, Len(s))>>

RECURSIVE CollapseWs(_, _)
\* re.sub(r"\s+", " ", s): every maximal run of whitespace becomes one space
CollapseWs(s, i) ==
    IF i > Len(s) THEN ""
    ELSE IF Ch(s, i) \in WS
         THEN (IF i > 1 /\ Ch(s, i-1) \in WS THEN "" ELSE " ") \o CollapseWs(s, i+1)
         ELSE Ch(s, i) \o CollapseWs(s, i+1)

RECURSIVE Strip(_)
\* str.strip()
Strip(s) ==
    IF s = "" THEN ""
    ELSE IF Ch(s, 1) \in WS THEN Strip(SubSeq(s, 2, Len(s)))
    ELSE IF Ch(s, Len(s)) \in WS THEN Strip(SubSeq(s, 1, Len(s)-1))
    ELSE s

normalize_ws(s) ==
    IF s = "" THEN "" ELSE Strip(CollapseWs(s, 1))

\* split_location_and_date without the normalize_ws of the two parts
split_location_and_date_raw(s) ==
    IF Contains(s, "|")
    THEN SplitFirst(s, "|")
    ELSE <<"", normalize_ws(s)>>

split_location_and_date(s) ==
    IF Contains(s, "|")
    THEN LET parts == SplitFirst(s, "|")
         IN  <<normalize_ws(parts[1]), normalize_ws(parts[2])>>
    ELSE <<"", normalize_ws(s)>>

----------------------------------------------------------------------------
(* Regular expressions: a pattern is a sequence of items [cls, lo, hi],    *)
(* a character class repeated lo..hi times, greedy.                        *)

It(cls, lo, hi) == [cls |-> cls, lo |-> lo, hi |-> hi]
\* {lo,}: no upper limit (hi = -1 never counts down to 0)
Many(cls, lo) == [cls |-> cls, lo |-> lo, hi |-> -1]
One(c) == It({c}, 1, 1)

RECURSIVE RunLen(_, _, _, _)
\* how many characters from position pos on are in cls, at most hi
RunLen(s, pos, cls, hi) ==
    IF hi = 0 \/ pos > Len(s) \/ Ch(s, pos) \notin cls THEN 0
    ELSE 1 + RunLen(s, pos + 1, cls, hi - 1)

RECURSIVE MatchAt(_, _, _, _)
RECURSIVE TryCount(_, _, _, _, _)
\* match items k.. of pat at position pos of s: [ok, ends], ends[j] the
\* position after the j-th of those items
MatchAt(pat, k, s, pos) ==
    IF k > Len(pat) THEN [ok |-> TRUE, ends |-> <<>>]
    ELSE TryCount(pat, k, s, pos, RunLen(s, pos, pat[k].cls, pat[k].hi))

TryCount(pat, k, s, pos, n) ==
    IF n < pat[k].lo THEN [ok |-> FALSE, ends |-> <<>>]
    ELSE LET r == MatchAt(pat, k + 1, s, pos + n)
         IN  IF r.ok THEN [ok |-> TRUE, ends |-> <<pos + n>> \o r.ends]
             ELSE TryCount(pat, k, s, pos, n - 1)

\* re.match(pat, s)
ReMatch(pat, s) == MatchAt(pat, 1, s, 1)

\* the text item k matched, for a match that began at position pos
Grp(s, pos, m, k) ==
    SubSeq(s, IF k = 1 THEN pos ELSE m.ends[k-1], m.ends[k] - 1)

\* the text items k1..k2 matched
Span(s, pos, m, k1, k2) ==
    SubSeq(s, IF k1 = 1 THEN pos ELSE m.ends[k1-1], m.ends[k2] - 1)

----------------------------------------------------------------------------
(* Dates *)

\* ([A-Za-z]{3,})\s+(\d{1,2})\-(\d{1,2}),\s*(\d{4})
PatMonthDD ==
    << Many(Alpha, 3), Many(WS, 1), It(Digit, 1, 2), One("-"),
       It(Digit, 1, 2), One(","), Many(WS, 0), It(Digit, 4, 4) >>

\* ([A-Za-z]{3,})\s+(\d{1,2})\s*-\s*([A-Za-z]{3,})\s+(\d{1,2}),\s*(\d{4})
PatMonthDMonthD ==
    << Many(Alpha, 3), Many(WS, 1), It(Digit, 1, 2),
       Many(WS, 0), One("-"), Many(WS, 0),
       Many(Alpha, 3), Many(WS, 1), It(Digit, 1, 2), One(","),
       Many(WS, 0), It(Digit, 4, 4) >>

\* \d{4}\.\d{2}\.\d{2}
PatYmd == << It(Digit, 4, 4), One("."), It(Digit, 2, 2), One("."), It(Digit, 2, 2) >>
\* \d{1,2}\.\d{1,2}\.\d{4}
PatDmy == << It(Digit, 1, 2), One("."), It(Digit, 1, 2), One("."), It(Digit, 4, 4) >>
\* \s*-\s*
PatDash == << Many(WS, 0), One("-"), Many(WS, 0) >>
\* (\d{4}\.\d{2}\.\d{2})\s*-\s*(\d{4}\.\d{2}\.\d{2})
PatYmdRange == PatYmd \o PatDash \o PatYmd
\* (\d{1,2}\.\d{1,2}\.\d{4})\s*-\s*(\d{1,2}\.\d{1,2}\.\d{4})
PatDmyRange == PatDmy \o PatDash \o PatDmy
\* [A-Za-z]{3,}\s+\d{1,2},\s*\d{4}
PatMonthDY ==
    << Many(Alpha, 3), Many(WS, 1), It(Digit, 1, 2), One(","),
       Many(WS, 0), It(Digit, 4, 4) >>
\* (\d{1,2})\s+([A-Za-z]{3,}),\s*(\d{4})
PatDMonthY ==
    << It(Digit, 1, 2), Many(WS, 1), Many(Alpha, 3), One(","),
       Many(WS, 0), It(Digit, 4, 4) >>

\* the alternatives of the token pattern of parse_date_range, in order
TokenAlts == << PatMonthDY, PatDmy, PatYmd >>

RECURSIVE FirstAlt(_, _, _)
\* the first alternative (from k on) that matches at pos: [ok, end]
FirstAlt(s, pos, k) ==
    IF k > Len(TokenAlts) THEN [ok |-> FALSE, end |-> pos]
    ELSE LET m == MatchAt(TokenAlts[k], 1, s, pos)
         IN  IF m.ok THEN [ok |-> TRUE, end |-> m.ends[Len(TokenAlts[k])]]
             ELSE FirstAlt(s, pos, k + 1)

RECURSIVE FindTokens(_, _)
\* re.findall of the token pattern: leftmost, non-overlapping matches
FindTokens(s, pos) ==
    IF pos > Len(s) THEN <<>>
    ELSE LET a == FirstAlt(s, pos, 1)
         IN  IF a.ok THEN <<SubSeq(s, pos, a.end - 1)>> \o FindTokens(s, a.end)
             ELSE FindTokens(s, pos + 1)

parse_date_range(s0) ==
    LET s  == normalize_ws(s0)
        m1 == ReMatch(PatMonthDD, s)
        m2 == ReMatch(PatMonthDMonthD, s)
        m3 == ReMatch(PatYmdRange, s)
        m4 == ReMatch(PatDmyRange, s)
        toks == FindTokens(s, 1)
    IN  IF s = "" THEN <<"", "">>
        ELSE IF m1.ok THEN
            << Grp(s, 1, m1, 1) \o " " \o Grp(s, 1, m1, 3) \o ", " \o Grp(s, 1, m1, 8),
               Grp(s, 1, m1, 1) \o " " \o Grp(s, 1, m1, 5) \o ", " \o Grp(s, 1, m1, 8) >>
        ELSE IF m2.ok THEN
            << Grp(s, 1, m2, 1) \o " " \o Grp(s, 1, m2, 3) \o ", " \o Grp(s, 1, m2, 12),
               Grp(s, 1, m2, 7) \o " " \o Grp(s, 1, m2, 9) \o ", " \o Grp(s, 1, m2, 12) >>
        ELSE IF m3.ok THEN << Span(s, 1, m3, 1, 5), Span(s, 1, m3, 9, 13) >>
        ELSE IF m4.ok THEN << Span(s, 1, m4, 1, 5), Span(s, 1, m4, 9, 13) >>
        ELSE IF Len(toks) >= 2 THEN << toks[1], toks[2] >>
        ELSE << s, "" >>

DigitVal(c) ==
    CASE c = "0" -> 0 [] c = "1" -> 1 [] c = "2" -> 2 [] c = "3" -> 3 [] c = "4" -> 4
      [] c = "5" -> 5 [] c = "6" -> 6 [] c = "7" -> 7 [] c = "8" -> 8 [] c = "9" -> 9

DigitChar(n) == CHOOSE c \in Digit : DigitVal(c) = n

RECURSIVE StrToInt(_)
\* int(d) for a string of digits
StrToInt(d) ==
    IF d = "" THEN 0
    ELSE 10 * StrToInt(SubSeq(d, 1, Len(d) - 1)) + DigitVal(Ch(d, Len(d)))

RECURSIVE IntToStr(_)
\* str(n) for n >= 0
IntToStr(n) ==
    IF n < 10 THEN DigitChar(n) ELSE IntToStr(n \div 10) \o DigitChar(n % 10)

normalize_date_token(token0) ==
    LET token == normalize_ws(token0)
        m1 == ReMatch(PatDMonthY, token)
        m2 == ReMatch(PatMonthDY, token)
    IN  IF token = "" THEN ""
        ELSE IF m1.ok THEN
            Grp(token, 1, m1, 3) \o " " \o IntToStr(StrToInt(Grp(token, 1, m1, 1)))
                \o ", " \o Grp(token, 1, m1, 6)
        ELSE IF m2.ok THEN
            Grp(token, 1, m2, 1) \o " " \o IntToStr(StrToInt(Grp(token, 1, m2, 3)))
                \o ", " \o Grp(token, 1, m2, 6)
        ELSE token

HasDigit(s) == \E i \in 1..Len(s) : Ch(s, i) \in Digit

parse_formatted_date_range(formatted) ==
    IF formatted = "" THEN <<"", "">>
    ELSE IF Contains(formatted, "-") /\ Contains(formatted, ",") /\ HasDigit(formatted)
         THEN LET parts == SplitFirst(formatted, "-")
              IN  << normalize_date_token(normalize_ws(parts[1])),
                     normalize_date_token(normalize_ws(parts[2])) >>
         ELSE parse_date_range(formatted)


----------------------------------------------------------------------------
(* dedupe_rows *)

\* the key of a record: (name, location, start_date, end_date)
RowKey(r) == <<r.name, r.location, r.start_date, r.end_date>>

RECURSIVE DedupeLoop(_, _, _, _)
\* the loop of dedupe_rows from index i on, with its locals `seen` and `out`
DedupeLoop(rs, i, sn, out) ==
    IF i > Len(rs) THEN out
    ELSE IF RowKey(rs[i]) \in sn
         THEN DedupeLoop(rs, i + 1, sn, out)
         ELSE DedupeLoop(rs, i + 1, sn \cup {RowKey(rs[i])}, Append(out, rs[i]))

\* a deduplication that keeps the last record of every key
dedupe_rows_keep_last(rs) ==
    LET Last(i) == \A j \in (i+1)..Len(rs) : RowKey(rs[j]) # RowKey(rs[i])
        F[i \in 0..Len(rs)] ==
            IF i = 0 THEN <<>>
            ELSE IF Last(i) THEN Append(F[i-1], rs[i]) ELSE F[i-1]
    IN  F[Len(rs)]

dedupe_rows(rs) == DedupeLoop(rs, 1, {}, <<>>)

----------------------------------------------------------------------------
(* fetch *)

\* attempts per call
RETRY == 3
\* base sleep, in tenths of a second (0.8 s)
SLEEP_BETWEEN == 8

\* the absent value
None == [none |-> TRUE, text |-> ""]
\* a returned body
Body(t) == [none |-> FALSE, text |-> t]

\* what one requests.get can do: raise a RequestException, or answer with a
\* status code and a body
Raises == [raises |-> TRUE, status_code |-> 0, text |-> ""]
Resp(code, text) == [raises |-> FALSE, status_code |-> code, text |-> text]

\* the test of line 34 without its `and resp.text`
IsSuccess_empty_ok(o) == ~o.raises /\ 200 <= o.status_code /\ o.status_code < 300
\* the test of line 34
IsSuccess(o) == ~o.raises /\ 200 <= o.status_code /\ o.status_code < 300 /\ o.text # ""

\* the state of one call: i the loop index, at "request" | "sleep" | "returned",
\* gets the number of GETs issued, events what happened in order
FetchStart ==
    [i |-> 0, at |-> "request", result |-> None, gets |-> 0, events |-> <<>>]

\* lines 32-37: one attempt, given what the network does
DoRequest(st, o) ==
    IF IsSuccess(o)
    THEN [st EXCEPT !.at = "returned", !.result = Body(o.text), !.gets = @ + 1,
                    !.events = Append(@, <<"get", st.i + 1>>)]
    ELSE [st EXCEPT !.at = "sleep", !.gets = @ + 1,
                    !.events = Append(@, <<"get", st.i + 1>>)]

\* a loop that returns after its first failed attempt
DoSleep_give_up(st) ==
    [st EXCEPT !.i = @ + 1, !.at = "returned",
               !.events = Append(@, <<"sleep", SLEEP_BETWEEN * (st.i + 1)>>)]

\* lines 38-39, 31: the sleep after a failed attempt, then the next round of
\* the loop, or `return None` when the range is exhausted
DoSleep(st) ==
    [st EXCEPT !.i = @ + 1,
               !.at = IF st.i + 1 < RETRY THEN "request" ELSE "returned",
               !.events = Append(@, <<"sleep", SLEEP_BETWEEN * (st.i + 1)>>)]

RECURSIVE FetchRun(_, _)
FetchRun(st, outs) ==
    IF st.at = "returned" THEN st
    ELSE IF st.at = "request" THEN FetchRun(DoRequest(st, outs[st.i + 1]), outs)
    ELSE FetchRun(DoSleep(st), outs)

\* a whole call of fetch(url), given the outcomes of its attempts
fetch(outs) == FetchRun(FetchStart, outs)


----------------------------------------------------------------------------
(* The variables of a part of the program that a specification leaves out *)

NotRun == "not run"
\* the result of a function that has not been applied yet
Pending == [done |-> FALSE, val |-> <<>>]
Done(v) == [done |-> TRUE, val |-> v]
IdlePipe == /\ pc = NotRun /\ cat = 0 /\ rows = <<>> /\ seen = {} /\ files = <<>>
            /\ jsonRet = <<>> /\ htmlRet = <<>> /\ net = <<>> /\ cands = <<>> /\ walked = 0
IdleFetch  == f = NotRun /\ fouts = <<>>
IdleDedupe == d_in = <<>> /\ d_out = Pending
IdleSplit  == s_in = "" /\ s_out = Pending
IdleDates  == p_in = NotRun /\ p_out = Pending /\ p_old = Pending

\* all strings over alphabet a of length at most n
RECURSIVE StringsUpTo(_, _)
StringsUpTo(a, n) ==
    IF n = 0 THEN {""}
    ELSE LET shorter == StringsUpTo(a, n - 1)
         IN  shorter \cup {s \o c : s \in shorter, c \in a}

\* all sequences over set S of length at most n
RECURSIVE SeqsUpTo(_, _)
SeqsUpTo(S, n) ==
    IF n = 0 THEN {<<>>}
    ELSE LET shorter == SeqsUpTo(S, n - 1)
         IN  shorter \cup {Append(q, x) : q \in shorter, x \in S}

----------------------------------------------------------------------------
(* One call of fetch, attempt by attempt *)

StatusCodes == {199, 200, 299, 300, 404}
Texts == {"", "<html>A</html>", "<html>B</html>"}
Outcomes == {Raises} \cup {Resp(c, t) : c \in StatusCodes, t \in Texts}

InitFetch ==
    /\ fouts \in [1..RETRY -> Outcomes]
    /\ f = FetchStart
    /\ IdlePipe /\ IdleDedupe /\ IdleSplit /\ IdleDates

\* requests.get(url, ...) and the test of its response
FetchRequest ==
    /\ f.at = "request"
    /\ f' = DoRequest(f, fouts[f.i + 1])
    /\ UNCHANGED <<fouts, pipeVars, dedupeVars, splitVars, dateVars>>

\* time.sleep(SLEEP_BETWEEN * (i + 1)), and the loop's next round or its end
FetchSleep ==
    /\ f.at = "sleep"
    /\ f' = DoSleep(f)
    /\ UNCHANGED <<fouts, pipeVars, dedupeVars, splitVars, dateVars>>

NextFetch == FetchRequest \/ FetchSleep
SpecFetch == InitFetch /\ [][NextFetch]_vars
\* a GET ends (it has a timeout) and a sleep ends: the call keeps stepping
SpecFetchFair == SpecFetch /\ WF_vars(NextFetch)

----------------------------------------------------------------------------
(* dedupe_rows on every short list of records *)

MaxRows == 3

\* a record, with the ten columns of the output
Row(name, location, start_date, end_date, surface, indoor_outdoor, winner, results_url, source, source_page) ==
    [name |-> name, location |-> location, start_date |-> start_date,
     end_date |-> end_date, surface |-> surface, indoor_outdoor |-> indoor_outdoor,
     winner |-> winner, results_url |-> results_url, source |-> source,
     source_page |-> source_page]

DedupeRecords ==
    { Row(n, l, "March 6, 2025", "March 16, 2025", sf, "Outdoor", w, "", "ATP Tour", "u") :
        n \in {"Indian Wells", "Miami"}, l \in {"USA", ""},
        sf \in {"Hard", "Clay"}, w \in {"", "Jack Draper"} }

InitDedupe ==
    /\ d_in \in SeqsUpTo(DedupeRecords, MaxRows)
    /\ d_out = Pending
    /\ IdlePipe /\ IdleFetch /\ IdleSplit /\ IdleDates

Dedupe ==
    /\ ~d_out.done
    /\ d_out' = Done(dedupe_rows(d_in))
    /\ UNCHANGED <<d_in, pipeVars, fetchVars, splitVars, dateVars>>

SpecDedupe == InitDedupe /\ [][Dedupe]_vars

----------------------------------------------------------------------------
(* split_location_and_date on every short string *)

MaxLen == 5
SplitAlphabet == {"a", "b", " ", "\t", "|"}

InitSplit ==
    /\ s_in \in StringsUpTo(SplitAlphabet, MaxLen)
    /\ s_out = Pending
    /\ IdlePipe /\ IdleFetch /\ IdleDedupe /\ IdleDates

Split ==
    /\ ~s_out.done
    /\ s_out' = Done(split_location_and_date(s_in))
    /\ UNCHANGED <<s_in, pipeVars, fetchVars, dedupeVars, dateVars>>

SpecSplit == InitSplit /\ [][Split]_vars

----------------------------------------------------------------------------
(* The date parsers on formatted dates of the shapes the site uses *)

Months == {"January", "December", "Feb"}
Days   == {"1", "07", "27"}
Years  == {"2024", "2025"}

\* a formatted date, by shape
FormattedDates ==
    {[shape |-> "Month D-D, Y", mon1 |-> m, d1 |-> a, year1 |-> y,
      mon2 |-> m, d2 |-> b, year2 |-> y] : m \in Months, a \in Days, b \in Days, y \in Years}
    \cup
    {[shape |-> "D Month, Y - D Month, Y", mon1 |-> m, d1 |-> a, year1 |-> y,
      mon2 |-> n, d2 |-> b, year2 |-> z] :
        m \in Months, n \in Months, a \in Days, b \in Days, y \in Years, z \in Years}
    \cup
    {[shape |-> "Month D, Y", mon1 |-> m, d1 |-> a, year1 |-> y,
      mon2 |-> m, d2 |-> a, year2 |-> y] : m \in Months, a \in Days, y \in Years}

\* the text of a formatted date
Text(fd) ==
    CASE fd.shape = "Month D-D, Y" ->
            fd.mon1 \o " " \o fd.d1 \o "-" \o fd.d2 \o ", " \o fd.year1
      [] fd.shape = "D Month, Y - D Month, Y" ->
            fd.d1 \o " " \o fd.mon1 \o ", " \o fd.year1 \o " - "
                \o fd.d2 \o " " \o fd.mon2 \o ", " \o fd.year2
      [] fd.shape = "Month D, Y" ->
            fd.mon1 \o " " \o fd.d1 \o ", " \o fd.year1

InitDates ==
    /\ p_in \in FormattedDates
    /\ p_out = Pending /\ p_old = Pending
    /\ IdlePipe /\ IdleFetch /\ IdleDedupe /\ IdleSplit

ParseFormatted ==
    /\ ~p_out.done
    /\ p_out' = Done(parse_formatted_date_range(Text(p_in)))
    /\ UNCHANGED <<p_in, p_old, pipeVars, fetchVars, dedupeVars, splitVars>>

ParseOld ==
    /\ ~p_old.done
    /\ p_old' = Done(parse_date_range(Text(p_in)))
    /\ UNCHANGED <<p_in, p_out, pipeVars, fetchVars, dedupeVars, splitVars>>

NextDates == ParseFormatted \/ ParseOld
SpecDates == InitDates /\ [][NextDates]_vars


----------------------------------------------------------------------------
(* The pipeline: main, parse_calendar_json, parse_calendar_like *)

\* the walked items of the whole run (dates, tournament entries, containers)
MaxItems == 2

SITE == "https://www.atptour.com"
Labels   == <<"ATP Tour", "ATP Challenger", "ITF">>
JsonUrls == <<SITE \o "/en/-/tournaments/calendar/tour",
              SITE \o "/en/-/tournaments/calendar/challenger",
              SITE \o "/en/-/tournaments/calendar/futures">>
HtmlUrls == <<SITE \o "/en/tournaments",
              SITE \o "/en/atp-challenger-tour/calendar",
              SITE \o "/en/atp-challenger-tour/itf-calendar">>
Cats == 1..Len(Labels)

\* the pages a results URL can answer with, and the champion the two
\* patterns of try_extract_winner_from_results find in each
Pages == {"Singles Final Champion: Jannik Sinner", "Draws Singles Doubles"}
PageWinner(text) ==
    IF text = "Singles Final Champion: Jannik Sinner" THEN "Jannik Sinner" ELSE ""

\* what the network does to the attempts of one fetch of the pipeline: all
\* fail, or a page comes at the first, second or third attempt
AttemptSeqs ==
    { <<Raises, Resp(404, "Not Found"), Resp(200, "")>>,
      <<Resp(200, "Singles Final Champion: Jannik Sinner"), Raises, Raises>>,
      <<Resp(503, ""), Resp(200, "Draws Singles Doubles"), Raises>>,
      <<Raises, Resp(302, "Found"), Resp(200, "Singles Final Champion: Jannik Sinner")>> }

\* try_extract_winner_from_results(url), given the outcomes of its GETs:
\* the winner, whether fetch gave nothing, and the GETs issued
try_extract_winner_from_results(outs) ==
    LET st == fetch(outs)
    IN  [winner |-> IF st.result = None THEN "" ELSE PageWinner(st.result.text),
         failed |-> st.result = None,
         gets   |-> st.gets]

\* a walked item as the history keeps it
Item(key, url, how, gets) ==
    [key |-> key, url |-> url, how |-> how, gets |-> gets]

NoKey == <<"", "", "", "">>

\* a pass that drops the record when the results page could not be fetched
Emit_drop_on_failed_fetch(rs, sn, row, w) ==
    LET key == RowKey(row)
    IN  IF key \in sn THEN [rows |-> rs, seen |-> sn, how |-> "seen", gets |-> 0]
        ELSE IF row.results_url = ""
        THEN [rows |-> Append(rs, row), seen |-> sn \cup {key}, how |-> "nourl", gets |-> 0]
        ELSE IF w.failed
        THEN [rows |-> rs, seen |-> sn \cup {key}, how |-> "failed", gets |-> w.gets]
        ELSE [rows |-> Append(rs, [row EXCEPT !.winner = w.winner]),
              seen |-> sn \cup {key}, how |-> "ok", gets |-> w.gets]

\* a pass without the `if key in seen: continue`
Emit_no_seen_test(rs, sn, row, w) ==
    LET key == RowKey(row)
    IN  IF row.results_url = ""
        THEN [rows |-> Append(rs, row), seen |-> sn \cup {key}, how |-> "nourl", gets |-> 0]
        ELSE [rows |-> Append(rs, [row EXCEPT !.winner = w.winner]),
              seen |-> sn \cup {key},
              how  |-> IF w.failed THEN "failed" ELSE "ok", gets |-> w.gets]

\* lines 189-212 and 247-270: the key test, the winner and the new row, w
\* being what the winner resolver gives when it is called; gives the pass's
\* new locals and what became of the candidate
Emit(rs, sn, row, w) ==
    LET key == RowKey(row)
    IN  IF key \in sn THEN [rows |-> rs, seen |-> sn, how |-> "seen", gets |-> 0]
        ELSE IF row.results_url = ""
        THEN [rows |-> Append(rs, row), seen |-> sn \cup {key}, how |-> "nourl", gets |-> 0]
        ELSE [rows |-> Append(rs, [row EXCEPT !.winner = w.winner]),
              seen |-> sn \cup {key},
              how  |-> IF w.failed THEN "failed" ELSE "ok", gets |-> w.gets]

\* line 298: `parse_calendar_json(...) or parse_calendar_like(...)`
\* an orchestrator that runs the HTML pass whatever the JSON pass returned
FallbackToHtml_always(json_rows) == TRUE
FallbackToHtml(json_rows) == json_rows = <<>>

\* the tournament objects of a calendar payload
Tournaments ==
    { [Name |-> n, Location |-> "Doha, Qatar", FormattedDate |-> fd,
       Surface |-> "Hard", IndoorOutdoor |-> "Outdoor", DrawsUrl |-> du, ScoresUrl |-> su] :
        n  \in {"", "Qatar Open", " Qatar  Open"},
        fd \in {"17 February, 2025 - 23 February, 2025", "3 March, 2025 - 09 March, 2025"},
        du \in {"", "/en/draws/451"},
        su \in {"", "https://www.atptour.com/en/scores/451"} }
    \ { [Name |-> n, Location |-> "Doha, Qatar", FormattedDate |-> fd,
         Surface |-> "Hard", IndoorOutdoor |-> "Outdoor",
         DrawsUrl |-> "/en/draws/451", ScoresUrl |-> "https://www.atptour.com/en/scores/451"] :
        n  \in {"", "Qatar Open", " Qatar  Open"},
        fd \in {"17 February, 2025 - 23 February, 2025", "3 March, 2025 - 09 March, 2025"} }

\* the containers of a calendar page that pass the gates of lines 154-174,
\* by what the extractor reads from each
Containers ==
    { [name |-> n, loc_date |-> ld, surface |-> "Hard", indoor_outdoor |-> "Outdoor", href |-> h] :
        n  \in {"Qatar Open", "Dubai Open"},
        ld \in {"Doha, Qatar | February 17-23, 2025", "Doha, Qatar |  February 17-23,2025"},
        h  \in {"", "/en/scores/451"} }

\* lines 235-247: the fields of the record of tournament object t
JsonFields(t) ==
    LET dates == parse_formatted_date_range(normalize_ws(t.FormattedDate))
        link == IF t.DrawsUrl # "" THEN t.DrawsUrl ELSE t.ScoresUrl
    IN  [name |-> normalize_ws(t.Name), location |-> normalize_ws(t.Location),
         start_date |-> dates[1], end_date |-> dates[2],
         surface |-> normalize_ws(t.Surface),
         indoor_outdoor |-> normalize_ws(t.IndoorOutdoor),
         results_url |-> IF link # "" /\ Ch(link, 1) = "/" THEN SITE \o link ELSE link]

\* lines 176-189: the fields of the record of container c
HtmlFields(c) ==
    LET ld == split_location_and_date(c.loc_date)
        dates == parse_date_range(ld[2])
    IN  [name |-> c.name, location |-> ld[1],
         start_date |-> dates[1], end_date |-> dates[2],
         surface |-> c.surface, indoor_outdoor |-> c.indoor_outdoor,
         results_url |-> IF c.href = "" THEN "" ELSE SITE \o c.href]

\* the three as tables, computed once
JsonFieldsOf == [t \in Tournaments |-> JsonFields(t)]
HtmlFieldsOf == [c \in Containers |-> HtmlFields(c)]
WinnerOf == [outs \in AttemptSeqs |-> try_extract_winner_from_results(outs)]
FetchOf == [outs \in AttemptSeqs |-> fetch(outs)]

\* what the calendar endpoint answers: the response, and for a JSON body the
\* shape of the document and of its "TournamentDates" value
JsonResponses ==
    { [raises |-> TRUE,  status_code |-> 0,   json |-> "none"],
      [raises |-> FALSE, status_code |-> 503, json |-> "none"],
      [raises |-> FALSE, status_code |-> 200, json |-> "invalid"],
      [raises |-> FALSE, status_code |-> 200, json |-> "not a dict"] }
    \cup
    { [raises |-> FALSE, status_code |-> 200, json |-> td] :
        td \in {"dates missing", "dates null", "dates number", "dates string", "dates list"} }

NoJson == [how |-> "none", rows |-> <<>>]
NoNet  == [json |-> 0, html |-> 0, results |-> 0]

InitPipe ==
    /\ pc = "next"
    /\ cat = 0
    /\ rows = <<>>
    /\ seen = {}
    /\ files = [c \in Cats |-> Pending]
    /\ jsonRet = NoJson
    /\ htmlRet = "none"
    /\ net = NoNet
    /\ cands = <<>>
    /\ walked = 0

Init == InitPipe /\ IdleFetch /\ IdleDedupe /\ IdleSplit /\ IdleDates

others == <<fetchVars, dedupeVars, splitVars, dateVars>>

\* main's next category, and in it lines 217-232: the single GET of
\* parse_calendar_json, resp.json(), and the start of the walk over
\* data["TournamentDates"]
JsonRequest(r) ==
    /\ pc = "next"
    /\ cat < Len(Labels)
    /\ cat' = cat + 1
    /\ net' = [NoNet EXCEPT !.json = 1]
    /\ htmlRet' = "none"
    /\ rows' = <<>>
    /\ seen' = {}
    /\ cands' = <<>>
    /\ IF r.raises
       THEN /\ jsonRet' = [how |-> "transport", rows |-> <<>>]
            /\ pc' = "html"
       ELSE IF ~(200 <= r.status_code /\ r.status_code < 300)
       THEN /\ jsonRet' = [how |-> "status", rows |-> <<>>]
            /\ pc' = "html"
       ELSE IF r.json = "invalid"
       THEN /\ jsonRet' = [how |-> "malformed", rows |-> <<>>]
            /\ pc' = "html"
       ELSE IF r.json \in {"not a dict", "dates missing", "dates string"}
       THEN \* no dates, or items that are no dicts: the walk appends nothing
            /\ jsonRet' = [how |-> "returned", rows |-> dedupe_rows(<<>>)]
            /\ pc' = IF FallbackToHtml(dedupe_rows(<<>>)) THEN "html" ELSE "write"
       ELSE IF r.json \in {"dates null", "dates number"}
       THEN \* `for d in dates` raises TypeError, outside the try
            /\ jsonRet' = [how |-> "raised", rows |-> <<>>]
            /\ pc' = "raised"
       ELSE /\ jsonRet' = NoJson
            /\ pc' = "json_loop"
    /\ UNCHANGED <<files, walked, others>>

\* lines 232-234: a date entry that is no dict, or has no tournaments
JsonSkipDate ==
    /\ pc = "json_loop"
    /\ walked < MaxItems
    /\ walked' = walked + 1
    /\ cands' = Append(cands, Item(NoKey, "", "skipped", 0))
    /\ UNCHANGED <<pc, cat, rows, seen, files, jsonRet, htmlRet, net, others>>

\* line 234 on a date whose "Tournaments" is null (TypeError), line 235 on a
\* tournament entry that is no object (AttributeError): nothing catches it
JsonBadShape ==
    /\ pc = "json_loop"
    /\ walked < MaxItems
    /\ walked' = walked + 1
    /\ cands' = Append(cands, Item(NoKey, "", "raised", 0))
    /\ jsonRet' = [how |-> "raised", rows |-> <<>>]
    /\ pc' = "raised"
    /\ UNCHANGED <<cat, rows, seen, files, htmlRet, net, others>>

\* lines 235-270: one tournament object
JsonTournament(t, outs) ==
    /\ pc = "json_loop"
    /\ walked < MaxItems
    /\ walked' = walked + 1
    /\ \E x \in {JsonFieldsOf[t]}, w \in {WinnerOf[outs]} :
       \E row \in {Row(x.name, x.location, x.start_date, x.end_date, x.surface,
                       x.indoor_outdoor, "", x.results_url, Labels[cat], JsonUrls[cat])} :
       \E e \in {Emit(rows, seen, row, w)} :
           IF x.name = ""
           THEN /\ cands' = Append(cands, Item(RowKey(row), x.results_url, "noname", 0))
                /\ UNCHANGED <<rows, seen, net>>
           ELSE /\ cands' = Append(cands, Item(RowKey(row), x.results_url, e.how, e.gets))
                /\ rows' = e.rows
                /\ seen' = e.seen
                /\ net' = [net EXCEPT !.results = @ + e.gets]
    /\ UNCHANGED <<pc, cat, files, jsonRet, htmlRet, others>>

\* line 272, and in main the `or` of the category
JsonReturn ==
    /\ pc = "json_loop"
    /\ \E ret \in {dedupe_rows(rows)} :
           /\ jsonRet' = [how |-> "returned", rows |-> ret]
           /\ rows' = ret
           /\ pc' = IF FallbackToHtml(ret) THEN "html" ELSE "write"
    /\ UNCHANGED <<cat, seen, files, htmlRet, net, cands, walked, others>>

\* lines 140-152: the calendar page through fetch
HtmlFetch(outs) ==
    /\ pc = "html"
    /\ \E st \in {FetchOf[outs]} :
           /\ net' = [net EXCEPT !.html = @ + st.gets]
           /\ IF st.result = None
              THEN /\ htmlRet' = "fetch failed"
                   /\ pc' = "write"
              ELSE /\ htmlRet' = "fetched"
                   /\ pc' = "html_loop"
    /\ rows' = <<>>
    /\ seen' = {}
    /\ cands' = <<>>
    /\ UNCHANGED <<cat, files, jsonRet, walked, others>>

\* lines 153-174: a container without text, pipe, date or name
HtmlSkip ==
    /\ pc = "html_loop"
    /\ walked < MaxItems
    /\ walked' = walked + 1
    /\ cands' = Append(cands, Item(NoKey, "", "skipped", 0))
    /\ UNCHANGED <<pc, cat, rows, seen, files, jsonRet, htmlRet, net, others>>

\* lines 176-212: one container that names a tournament
HtmlCandidate(c, outs) ==
    /\ pc = "html_loop"
    /\ walked < MaxItems
    /\ walked' = walked + 1
    /\ \E x \in {HtmlFieldsOf[c]}, w \in {WinnerOf[outs]} :
       \E row \in {Row(x.name, x.location, x.start_date, x.end_date, x.surface,
                       x.indoor_outdoor, "", x.results_url, Labels[cat], HtmlUrls[cat])} :
       \E e \in {Emit(rows, seen, row, w)} :
           /\ cands' = Append(cands, Item(RowKey(row), x.results_url, e.how, e.gets))
           /\ rows' = e.rows
           /\ seen' = e.seen
           /\ net' = [net EXCEPT !.results = @ + e.gets]
    /\ UNCHANGED <<pc, cat, files, jsonRet, htmlRet, others>>

\* line 214
HtmlReturn ==
    /\ pc = "html_loop"
    /\ rows' = dedupe_rows(rows)
    /\ htmlRet' = "returned"
    /\ pc' = "write"
    /\ UNCHANGED <<cat, seen, files, jsonRet, net, cands, walked, others>>

\* write_csv of the category's rows
WriteCsv ==
    /\ pc = "write"
    /\ files' = [files EXCEPT ![cat] = Done(rows)]
    /\ pc' = "next"
    /\ UNCHANGED <<cat, rows, seen, jsonRet, htmlRet, net, cands, walked, others>>

Next ==
    \/ \E r \in JsonResponses : JsonRequest(r)
    \/ JsonSkipDate
    \/ JsonBadShape
    \/ \E t \in Tournaments, outs \in AttemptSeqs : JsonTournament(t, outs)
    \/ JsonReturn
    \/ \E outs \in AttemptSeqs : HtmlFetch(outs)
    \/ HtmlSkip
    \/ \E c \in Containers, outs \in AttemptSeqs : HtmlCandidate(c, outs)
    \/ HtmlReturn
    \/ WriteCsv

Spec == Init /\ [][Next]_vars


----------------------------------------------------------------------------
(* Properties of the pure functions and of fetch *)

\* q is p with some elements left out
IsSubsequence(q, p) ==
    \E g \in [1..Len(q) -> 1..Len(p)] :
        /\ \A i, j \in 1..Len(q) : i < j => g[i] < g[j]
        /\ \A i \in 1..Len(q) : q[i] = p[g[i]]

\* C1: dedupe_rows returns a subsequence of its input, no longer than it, in
\* which no two records share the key (name, location, start_date, end_date),
\* and which holds, for every key of the input, the first input record with
\* that key, whatever the winner or surface of the later ones.
C1_DedupeKeepsFirst ==
    d_out.done =>
        LET out == d_out.val IN
        /\ Len(out) <= Len(d_in)
        /\ IsSubsequence(out, d_in)
        /\ \A i, j \in 1..Len(out) : i # j => RowKey(out[i]) # RowKey(out[j])
        /\ \A i \in 1..Len(d_in) :
               (\A j \in 1..(i-1) : RowKey(d_in[j]) # RowKey(d_in[i]))
                   => \E k \in 1..Len(out) : out[k] = d_in[i]

\* an input with two records of one key that differ in winner and surface,
\* the second of them dropped, and a record of another key kept after them
C1_Witness ==
    /\ d_out.done
    /\ Len(d_in) = 3 /\ Len(d_out.val) = 2
    /\ RowKey(d_in[1]) = RowKey(d_in[2])
    /\ d_in[1].winner # d_in[2].winner /\ d_in[1].surface # d_in[2].surface
    /\ d_out.val = <<d_in[1], d_in[3]>>

\* a 2xx answer with a non-empty body
Is2xxNonEmpty(o) ==
    ~o.raises /\ o.status_code \in 200..299 /\ o.text # ""

\* at most RETRY requests; once returned, the body of the first attempt that
\* was 2xx with a non-empty body and no request after it, or the absent value
\* after exactly RETRY requests when no attempt was
FetchResultIsFirstBody ==
    /\ f.gets <= RETRY
    /\ Len(f.events) <= 2 * RETRY
    /\ f.at # "returned" => f.i < RETRY
    /\ f.at = "returned" =>
        LET good == {k \in 1..RETRY : Is2xxNonEmpty(fouts[k])} IN
        IF good = {}
        THEN f.result = None /\ f.gets = RETRY
        ELSE LET k == CHOOSE k \in good : \A j \in good : k <= j
             IN  f.result = Body(fouts[k].text) /\ f.gets = k

\* C2: whatever the attempts' outcomes, fetch returns, having issued at most
\* RETRY requests; it returns the body of the first attempt that was 2xx with
\* a non-empty body, having issued no request after it, and returns the
\* absent value after exactly RETRY requests when no attempt was.
C2_FetchBoundedRetry ==
    /\ []FetchResultIsFirstBody
    /\ <>(f.at = "returned")

\* a transport error at the first attempt, a page at the second, and another
\* page at the third, never asked for
C2_Witness ==
    /\ f.at = "returned"
    /\ fouts[1].raises
    /\ f.gets = 2
    /\ f.result = Body(fouts[2].text)
    /\ Is2xxNonEmpty(fouts[3]) /\ fouts[3].text # fouts[2].text

\* C7: fetch sleeps only between two attempts of the call: after failed
\* attempt n it waits SLEEP_BETWEEN * n and then makes attempt n+1; it does
\* not sleep after a successful attempt nor after the last failed one, so a
\* returned call never ends with a sleep.
C7_SleepOnlyBetweenAttempts ==
    \A k \in 1..Len(f.events) :
        f.events[k][1] = "sleep" =>
            /\ k > 1
            /\ f.events[k-1][1] = "get"
            /\ f.events[k][2] = SLEEP_BETWEEN * f.events[k-1][2]
            /\ f.at = "returned" => (k < Len(f.events) /\ f.events[k+1][1] = "get")

\* the number of pipes in s
PipeCount(s) == Cardinality({i \in 1..Len(s) : Ch(s, i) = "|"})

\* the two parts rejoined
Rejoined(parts) == parts[1] \o " | " \o parts[2]

\* C8 as stated: for every string with exactly one pipe the split gives two
\* parts, and location + " | " + remainder is the normalized input, also
\* with no whitespace around the pipe or with an empty side.
C8_RejoinIsNormalizedInput ==
    (s_out.done /\ PipeCount(s_in) = 1) =>
        /\ Len(s_out.val) = 2
        /\ Rejoined(s_out.val) = normalize_ws(s_in)

\* the pipe of s has a whitespace character right before and right after it,
\* and something other than whitespace on each side
PipePadded(s) ==
    LET i == IndexOf(s, "|") IN
    /\ i > 1 /\ Ch(s, i - 1) \in WS
    /\ i < Len(s) /\ Ch(s, i + 1) \in WS
    /\ \E j \in 1..(i-1) : Ch(s, j) \notin WS
    /\ \E j \in (i+1)..Len(s) : Ch(s, j) \notin WS

\* C8, amended: for every string with exactly one pipe the split gives two
\* parts, each normalized and without a pipe, and location + " | " +
\* remainder is the normalized input exactly when the pipe has whitespace on
\* both sides and neither side is empty or whitespace only.
C8_RejoinIffPadded ==
    (s_out.done /\ PipeCount(s_in) = 1) =>
        /\ Len(s_out.val) = 2
        /\ \A k \in 1..2 : /\ ~Contains(s_out.val[k], "|")
                           /\ normalize_ws(s_out.val[k]) = s_out.val[k]
        /\ (Rejoined(s_out.val) = normalize_ws(s_in)) <=> PipePadded(s_in)

\* a padded pipe, with a tab on one side: the rejoined parts are the
\* normalized input
C8_Witness ==
    /\ s_out.done
    /\ s_in = "a\t| b"
    /\ s_out.val = <<"a", "b">>
    /\ Rejoined(s_out.val) = normalize_ws(s_in)

\* a day without its leading zero
Unpadded(d) == IF Len(d) = 2 /\ Ch(d, 1) = "0" THEN Ch(d, 2) ELSE d

\* C9: parse_formatted_date_range handles both formats its header names:
\* "Month D1-D2, YYYY" gives ("Month D1, YYYY", "Month D2, YYYY"), the pair
\* parse_date_range gives, and "D1 Month1, Y1 - D2 Month2, Y2" gives
\* ("Month1 D1, Y1", "Month2 D2, Y2") with the days' leading zeros removed.
C9_BothHeaderFormats ==
    p_out.done =>
        /\ p_in.shape = "Month D-D, Y" =>
              /\ p_out.val = << p_in.mon1 \o " " \o p_in.d1 \o ", " \o p_in.year1,
                                p_in.mon1 \o " " \o p_in.d2 \o ", " \o p_in.year1 >>
              /\ p_old.done => p_out.val = p_old.val
        /\ p_in.shape = "D Month, Y - D Month, Y" =>
              p_out.val = << p_in.mon1 \o " " \o Unpadded(p_in.d1) \o ", " \o p_in.year1,
                             p_in.mon2 \o " " \o Unpadded(p_in.d2) \o ", " \o p_in.year2 >>

----------------------------------------------------------------------------
(* Properties of the pipeline *)

\* C3: in every category the JSON extractor comes first and the categories
\* come in order; the HTML extractor runs (and the HTML page is fetched) if
\* and only if the JSON extractor returned no record; records the JSON
\* extractor returned are what is written to the category's file.
C3_JsonFirstHtmlIffEmpty ==
    /\ \A c \in Cats : files[c].done <=> (c < cat \/ (c = cat /\ pc = "next"))
    /\ cat > 0 => net.json = 1
    /\ (htmlRet # "none" \/ net.html > 0 \/ pc \in {"html", "html_loop"}) =>
           /\ jsonRet.how \in {"returned", "transport", "status", "malformed"}
           /\ jsonRet.rows = <<>>
    /\ (cat > 0 /\ pc \in {"write", "next"}) =>
           IF jsonRet.rows = <<>>
           THEN htmlRet \in {"fetch failed", "returned"} /\ net.html > 0
           ELSE htmlRet = "none" /\ net.html = 0 /\ rows = jsonRet.rows
    /\ (cat > 0 /\ pc = "next" /\ jsonRet.rows # <<>>) => files[cat].val = jsonRet.rows

\* the first category fell back to its HTML page and wrote a record from it;
\* the second wrote the record its JSON gave, with no GET of its HTML page
C3_Witness ==
    /\ cat = 2 /\ pc = "next"
    /\ Len(files[1].val) = 1 /\ files[1].val[1].source_page = HtmlUrls[1]
    /\ Len(jsonRet.rows) = 1 /\ files[2].val = jsonRet.rows
    /\ files[2].val[1].source_page = JsonUrls[2]
    /\ net.html = 0

\* C4: parse_calendar_json never raises: whatever the structured request
\* gives (transport error, bad status, invalid JSON, JSON of another shape),
\* it returns, and main goes on.
C4_JsonNeverRaises == pc # "raised"

\* C6 as stated: every request is attempted RETRY times before its stage
\* takes it for "no data": the JSON calendar request after a transport
\* failure or a bad status, the HTML page, the results pages.
C6_EveryRequestRetried ==
    /\ jsonRet.how \in {"transport", "status"} => net.json = RETRY
    /\ htmlRet = "fetch failed" => net.html = RETRY
    /\ \A i \in 1..Len(cands) : cands[i].how = "failed" => cands[i].gets = RETRY

\* C6, amended: the requests made through fetch (the HTML calendar page, the
\* results pages) are attempted RETRY times before the stage takes them for
\* "no data"; the JSON calendar request is issued exactly once per category,
\* and a failure of it is "no data" at once.
C6_FetchRetriedJsonOnce ==
    /\ cat > 0 => net.json = 1
    /\ jsonRet.how \in {"transport", "status", "malformed"} => jsonRet.rows = <<>>
    /\ htmlRet = "fetch failed" => net.html = RETRY
    /\ \A i \in 1..Len(cands) : cands[i].how = "failed" => cands[i].gets = RETRY

\* the JSON request failed in transport and was not repeated; the HTML page
\* was given up after RETRY requests
C6_Witness ==
    /\ jsonRet.how = "transport" /\ net.json = 1
    /\ htmlRet = "fetch failed" /\ net.html = RETRY

\* the walked items of this pass that name a tournament for the first time
FirstOfKey(i) ==
    /\ cands[i].key[1] # ""
    /\ \A j \in 1..(i-1) : cands[j].key # cands[i].key
EmitIdx == {i \in 1..Len(cands) : FirstOfKey(i)}
\* where the record of such an item stands in `rows`
Pos(i) == Cardinality({j \in EmitIdx : j <= i})

\* C5: in both extractors the records emitted are, in order, those of the
\* candidates that name a tournament for the first time, whatever the
\* results-page fetches did: a candidate whose fetch failed at all RETRY
\* attempts has its record, with an empty winner and its results_url, and
\* the candidates after it are processed.
C5_FailedWinnerStillEmitted ==
    /\ Len(rows) = Cardinality(EmitIdx)
    /\ \A i \in EmitIdx :
           /\ RowKey(rows[Pos(i)]) = cands[i].key
           /\ rows[Pos(i)].results_url = cands[i].url
    /\ \A i \in 1..Len(cands) :
           cands[i].how = "failed" =>
               /\ i \in EmitIdx
               /\ cands[i].gets = RETRY
               /\ cands[i].url # ""
               /\ rows[Pos(i)].winner = ""

\* an HTML pass whose first candidate's results page failed three times and
\* whose second candidate got its winner
C5_Witness ==
    /\ pc = "html_loop"
    /\ Len(cands) = 2 /\ Len(rows) = 2
    /\ cands[1].how = "failed" /\ cands[1].gets = RETRY
    /\ rows[1].winner = "" /\ rows[1].results_url # ""
    /\ cands[2].how = "ok" /\ rows[2].winner # ""

\* the items for which the winner resolver was called
Invoked(i) == cands[i].how \in {"failed", "ok"}

\* C10: in one pass the winner resolver is called only for a candidate with
\* a results URL whose key was not seen before, so at most once per key and
\* at most once per record; a candidate with a seen key costs no GET; the
\* rows have distinct keys, and the final dedupe_rows removes nothing.
C10_ResolverOncePerKey ==
    /\ \A i \in 1..Len(cands) :
           /\ Invoked(i) => cands[i].url # "" /\ FirstOfKey(i)
           /\ ~Invoked(i) => cands[i].gets = 0
           /\ cands[i].how = "seen" => \E j \in 1..(i-1) : cands[j].key = cands[i].key
    /\ \A i, j \in 1..Len(cands) :
           (Invoked(i) /\ Invoked(j) /\ i # j) => cands[i].key # cands[j].key
    /\ Cardinality({i \in 1..Len(cands) : Invoked(i)}) <= Len(rows)
    /\ net.results <= RETRY * Len(rows)
    /\ \A i, j \in 1..Len(rows) : i # j => RowKey(rows[i]) # RowKey(rows[j])
    /\ dedupe_rows(rows) = rows

\* a JSON pass that met the same tournament twice, both times with a results
\* URL: one call of the resolver, one record
C10_Witness ==
    /\ pc = "json_loop"
    /\ Len(cands) = 2
    /\ Invoked(1)
    /\ cands[2].how = "seen" /\ cands[2].url # "" /\ cands[2].key = cands[1].key
    /\ Len(rows) = 1

=============================================================================
